---- MODULE Spec2Model ----
(***************************************************************************)
(* Model of pythonpro/domain/user_facade.py: the facade that sequences     *)
(* calls into the core storage, the email-marketing provider, the cohorts  *)
(* facade, the forum (Discourse) and the task executor.                    *)
(*                                                                         *)
(* One action per facade operation.  An action runs the whole handler: it  *)
(* threads a context record through the handler's statements in source     *)
(* order.  The context carries the pending exception (a raised exception   *)
(* skips every later statement, as in Python), the log of calls made on   *)
(* the collaborators, and the pieces of collaborator state the handler     *)
(* changes (stored users, cohort enrolment, the executor's queue).         *)
(***************************************************************************)
EXTENDS Naturals, Integers, Sequences, FiniteSets, TLC

(* The facade holds no state of its own.  The state is what its            *)
(* collaborators hold and the outcome of the call in flight.  The Django   *)
(* settings and the executor's configuration are read by a handler while   *)
(* it runs: each run draws them as inputs and records what it was given.   *)
VARIABLES
    users,     \* core storage: email -> role ("none" when not persisted)
    cohorts,   \* number of cohorts created so far; the most recent is `cohorts`
    enrolled,  \* cohorts facade: email -> cohort the user is subscribed to (0: none)
    queue,     \* tasks handed to the executor and not yet run by a worker
    last       \* the call in flight: name, arguments, outcome, log of calls

vars == <<users, cohorts, enrolled, queue, last>>

\* ---------------------------------------------------------------- bounds
MaxCohorts == 2

\* ---------------------------------------------------------------- values
Emails == {"ana@example.com", "bob@example.com"}
Sources == {"", "newsletter"}
Roles == {"lead", "client", "member"}
NoUser == "none"

\* A setting that is not configured (None or the empty string: falsy in Python).
Unset == "None"
BaseUrls == {Unset, "https://forum.example"}
ApiKeys == {Unset, "key"}
ApiUsers == {Unset, "admin"}
Truthy(x) == x # Unset

\* Executor configurations: a broker queue, or tasks run inline by .delay
\* (always-eager), with or without the task's exception re-raised to the caller.
Modes == {"queued", "eager", "eager_propagates"}

\* The Discourse settings a handler reads.
Settings == [base : BaseUrls, key : ApiKeys, user : ApiUsers]
NoSettings == [base |-> Unset, key |-> Unset, user |-> Unset]

NoExc == "none"
ActiveCampaignError == "ActiveCampaignError"
UserCreationException == "UserCreationException"
MissingDiscourseAPICredentials == "MissingDiscourseAPICredentials"
CoreError == "CoreError"
RequestException == "RequestException"
MailError == "MailError"

CLIENT_BOLETO_TAG == "client-boleto"

\* What the collaborators do in one handler run: which provider calls fail
\* (by ordinal within the run), whether the core call, the HTTP POST and the
\* mail delivery fail.  k is the number of provider calls the handler can make;
\* http and mail tell whether it can post and send mail at all.
Envs(k, http, mail) ==
    [down : SUBSET (1 .. k), core : BOOLEAN,
     http : IF http THEN BOOLEAN ELSE {FALSE},
     mail : IF mail THEN BOOLEAN ELSE {FALSE}]

\* ---------------------------------------------------------------- context
Ev(call, user, arg, cohort, ok) ==
    [call |-> call, user |-> user, arg |-> arg, cohort |-> cohort, ok |-> ok]

Ctx0(env, settings, mode) ==
    [exc |-> NoExc, log |-> <<>>, n |-> 0, env |-> env, settings |-> settings,
     mode |-> mode, users |-> users, enrolled |-> enrolled, queue |-> queue,
     form |-> {}, ret |-> NoUser, count |-> 0, leads |-> <<>>]

Raise(c, e) == IF c.exc # NoExc THEN c ELSE [c EXCEPT !.exc = e]
Logged(c, ev) == [c EXCEPT !.log = Append(@, ev)]

\* ---------------------------------------------------------------- collaborators
\* A call on the core facade that can fail (validation, storage): the failure
\* propagates to the handler as the core's exception.
Core(c, call, user, arg) ==
    IF c.exc # NoExc THEN c
    ELSE IF c.env.core
         THEN Raise(Logged(c, Ev(call, user, arg, 0, FALSE)), CoreError)
         ELSE Logged(c, Ev(call, user, arg, 0, TRUE))

\* _core_facade.register_lead / register_client / register_member and
\* promote_to_client / promote_to_member: the role is stored by the core.
\* register_lead creates the user, so it fails on an email already stored.
CoreSetRole(c, call, user, arg, role) ==
    IF c.exc # NoExc THEN c
    ELSE IF c.env.core \/ (call = "core.register_lead" /\ c.users[user] # NoUser)
         THEN Raise(Logged(c, Ev(call, user, arg, 0, FALSE)), CoreError)
         ELSE [Logged(c, Ev(call, user, arg, 0, TRUE))
                  EXCEPT !.users = [@ EXCEPT ![user] = role], !.ret = user]

\* _core_facade.validate_user: the form is rejected (UserCreationException is
\* raised by the core) when the input is invalid or the email is taken.
validate_user(c, email, source) ==
    IF c.exc # NoExc THEN c
    ELSE IF c.env.core \/ c.users[email] # NoUser
         THEN Raise(Logged(c, Ev("core.validate_user", email, source, 0, FALSE)),
                    UserCreationException)
         ELSE Logged(c, Ev("core.validate_user", email, source, 0, TRUE))

\* A call on the email-marketing provider: the n-th provider call of the run
\* raises ActiveCampaignError when the environment has it down.
Provider(c, call, user, arg, cohort) ==
    IF c.exc # NoExc THEN c
    ELSE LET k == c.n + 1
             ok == k \notin c.env.down
             d == [Logged(c, Ev(call, user, arg, cohort, ok)) EXCEPT !.n = k]
         IN IF ok THEN d ELSE Raise(d, ActiveCampaignError)

\* try: <body> except <exception>: pass, where b is the context before the try
\* statement and c the context after its body.
Swallow(b, c, e) ==
    IF b.exc = NoExc /\ c.exc = e THEN [c EXCEPT !.exc = NoExc] ELSE c

\* _cohorts_facade.subscribe_to_last_cohort(user)
subscribe_to_last_cohort(c, user) ==
    IF c.exc # NoExc THEN c
    ELSE [Logged(c, Ev("cohorts.subscribe_to_last_cohort", user, "", cohorts, TRUE))
             EXCEPT !.enrolled = [@ EXCEPT ![user] = cohorts]]

\* _cohorts_facade.find_most_recent_cohort()
find_most_recent_cohort == cohorts

\* build_absolute_uri(cohort.get_absolute_url())
CohortPath(k) == <<"/cohorts", k>>
build_absolute_uri(path) == <<"https://host">> \o path

\* f'{settings.DISCOURSE_BASE_URL}/admin/users/sync_sso'
SyncSsoUrl(base) == <<base, "/admin/users/sync_sso">>

\* generate_sso_payload_and_signature(params)
generate_sso_payload_and_signature(params) ==
    [sso |-> params, sig |-> <<"hmac", params>>]

\* ---------------------------------------------------------------- forum sync
can_make_api_call(settings) == Truthy(settings.key) /\ Truthy(settings.user)
can_work_without_sync(settings) ==
    ~(Truthy(settings.base) \/ can_make_api_call(settings))

PostEv(user, url, data, headers, ok) ==
    [call |-> "requests.post", user |-> user, arg |-> "", cohort |-> 0,
     ok |-> ok, url |-> url, data |-> data, headers |-> headers]

\* sync_user_on_discourse without the check of the credentials.
sync_user_on_discourse_unchecked(c, user) ==
    IF c.exc # NoExc THEN c
    ELSE IF can_work_without_sync(c.settings) THEN c
    ELSE LET c1 == Logged(c, Ev("core.find_user_by_id", user, "", 0, TRUE))
             params == [email |-> user, external_id |-> user,
                        require_activation |-> "false", groups |-> c.users[user]]
             signed == generate_sso_payload_and_signature(params)
             headers == [content_type |-> "multipart/form-data",
                         Api_Key |-> c.settings.key,
                         Api_Username |-> c.settings.user]
             c2 == Logged(c1, PostEv(user, SyncSsoUrl(c.settings.base), signed,
                                     headers, ~c.env.http))
         IN IF c.env.http THEN Raise(c2, RequestException) ELSE c2

\* sync_user_on_discourse(user_or_id), the task's body
sync_user_on_discourse(c, user) ==
    IF c.exc # NoExc THEN c
    ELSE IF can_work_without_sync(c.settings) THEN c
    ELSE IF ~can_make_api_call(c.settings)
         THEN Raise(c, MissingDiscourseAPICredentials)
    ELSE LET c1 == Logged(c, Ev("core.find_user_by_id", user, "", 0, TRUE))
             params == [email |-> user, external_id |-> user,
                        require_activation |-> "false", groups |-> c.users[user]]
             signed == generate_sso_payload_and_signature(params)
             headers == [content_type |-> "multipart/form-data",
                         Api_Key |-> c.settings.key,
                         Api_Username |-> c.settings.user]
             c2 == Logged(c1, PostEv(user, SyncSsoUrl(c.settings.base), signed,
                                     headers, ~c.env.http))
         IN IF c.env.http THEN Raise(c2, RequestException) ELSE c2

\* ---------------------------------------------------------------- executor
Task(name, user, arg) == [task |-> name, user |-> user, arg |-> arg]

\* The body of a task, run by a worker or inline by an eager executor.
RunTask(c, t) ==
    IF t.task = "sync_user_on_discourse" THEN sync_user_on_discourse(c, t.user)
    ELSE Provider(c, t.task, t.user, t.arg, 0)

DelayEv(t) ==
    [call |-> "delay", user |-> t.user, arg |-> t.task, cohort |-> 0,
     ok |-> TRUE, targ |-> t.arg]

\* task.delay(...): hand the task to the executor.  A queued executor stores
\* it and returns; an eager one runs the body inside the call, and re-raises
\* the body's exception only when configured to propagate.
Delay(c, t) ==
    IF c.exc # NoExc THEN c
    ELSE LET d == Logged(c, DelayEv(t))
         IN IF c.mode = "queued" THEN [d EXCEPT !.queue = Append(@, t)]
            ELSE LET r == RunTask(d, t)
                 IN IF c.mode = "eager_propagates" THEN r
                    ELSE [r EXCEPT !.exc = NoExc]

\* ---------------------------------------------------------------- mail
CohortTitle(k) == <<"Turma", k>>

MailEv(user, subject, body, ok) ==
    [call |-> "send_mail", user |-> user, arg |-> "", cohort |-> 0, ok |-> ok,
     subject |-> subject, body |-> body, to |-> {user}]

\* _send_mail(subject, render_to_string(template, context), from, [user.email])
send_mail(c, user, subject, body) ==
    IF c.exc # NoExc THEN c
    ELSE IF c.env.mail
         THEN Raise(Logged(c, MailEv(user, subject, body, FALSE)), MailError)
         ELSE Logged(c, MailEv(user, subject, body, TRUE))

\* ---------------------------------------------------------------- registration
\* register_lead(first_name, email, source); the first name is passed through
\* to the collaborators unchanged and goes with the email.
register_lead(c, email, source) ==
    LET src == IF source = "" THEN "unknown" ELSE source
        c1 == validate_user(c, email, src)
        c2 == Delay(c1, Task("create_or_update_lead", email, "id=None"))
        c3 == IF c1.exc = NoExc /\ c2.exc = ActiveCampaignError
              THEN [c2 EXCEPT !.form = {"email"}, !.exc = UserCreationException]
              ELSE c2
        c4 == CoreSetRole(c3, "core.register_lead", email, src, "lead")
        c5 == Delay(c4, Task("sync_user_on_discourse", email, "id"))
        c6 == Delay(c5, Task("create_or_update_lead", email, "id"))
    IN c6

force_register_lead(c, email, source) ==
    LET c1 == CoreSetRole(c, "core.register_lead", email, source, "lead")
        c2 == sync_user_on_discourse(c1, email)
        c3 == Delay(c2, Task("create_or_update_lead", email, "id"))
    IN Swallow(c2, c3, ActiveCampaignError)

\* force_register_client with the provider call outside the try statement.
force_register_client_unguarded(c, email, source) ==
    LET c1 == CoreSetRole(c, "core.register_client", email, source, "client")
        c2 == sync_user_on_discourse(c1, email)
    IN Provider(c2, "create_or_update_client", email, "id", 0)

force_register_client(c, email, source) ==
    LET c1 == CoreSetRole(c, "core.register_client", email, source, "client")
        c2 == sync_user_on_discourse(c1, email)
        c3 == Provider(c2, "create_or_update_client", email, "id", 0)
    IN Swallow(c2, c3, ActiveCampaignError)

force_register_member(c, email, source) ==
    LET c1 == CoreSetRole(c, "core.register_member", email, source, "member")
        c2 == subscribe_to_last_cohort(c1, email)
        cohort == find_most_recent_cohort
        c3 == sync_user_on_discourse(c2, email)
        c4 == Provider(c3, "create_or_update_member", email, "id", 0)
        c5 == Provider(c4, "tag_as", email, "turma-slug", cohort)
    IN Swallow(c3, c5, ActiveCampaignError)

\* ---------------------------------------------------------------- promotion
\* promote_member with the cohort tag applied after the try statement.
promote_member_tag_unguarded(c, user, source) ==
    LET c1 == CoreSetRole(c, "core.promote_to_member", user, source, "member")
        c2 == subscribe_to_last_cohort(c1, user)
        cohort == find_most_recent_cohort
        c3 == sync_user_on_discourse(c2, user)
        c4 == Provider(c3, "create_or_update_member", user, "id", 0)
        c5 == Swallow(c3, c4, ActiveCampaignError)
        c6 == Provider(c5, "tag_as", user, "turma-slug", cohort)
        body == [template |-> "payments/membership_email.txt", user |-> user,
                 url |-> build_absolute_uri(CohortPath(cohort))]
    IN send_mail(c6, user, <<"Inscricao na Turma", CohortTitle(cohort)>>, body)

promote_member(c, user, source) ==
    LET c1 == CoreSetRole(c, "core.promote_to_member", user, source, "member")
        c2 == subscribe_to_last_cohort(c1, user)
        cohort == find_most_recent_cohort
        c3 == sync_user_on_discourse(c2, user)
        c4 == Provider(c3, "create_or_update_member", user, "id", 0)
        c5 == Provider(c4, "tag_as", user, "turma-slug", cohort)
        c6 == Swallow(c3, c5, ActiveCampaignError)
        body == [template |-> "payments/membership_email.txt", user |-> user,
                 url |-> build_absolute_uri(CohortPath(cohort))]
    IN send_mail(c6, user, <<"Inscricao na Turma", CohortTitle(cohort)>>, body)

\* promote_client with the forum sync made best-effort (its failure ignored).
promote_client_forum_ignored(c, user, source) ==
    LET c1 == CoreSetRole(c, "core.promote_to_client", user, source, "client")
        s1 == sync_user_on_discourse(c1, user)
        c2 == IF c1.exc = NoExc THEN [s1 EXCEPT !.exc = NoExc] ELSE s1
        c3 == Provider(c2, "create_or_update_client", user, "id", 0)
        c4 == Swallow(c2, c3, ActiveCampaignError)
        body == [template |-> "payments/pytools_email.txt", user |-> user,
                 url |-> build_absolute_uri(<<"/payments/pytools_thanks">>)]
        c5 == send_mail(c4, user, <<"Inscricao no curso Pytools">>, body)
    IN [c5 EXCEPT !.ret = NoUser]

promote_client(c, user, source) ==
    LET c1 == CoreSetRole(c, "core.promote_to_client", user, source, "client")
        c2 == sync_user_on_discourse(c1, user)
        c3 == Provider(c2, "create_or_update_client", user, "id", 0)
        c4 == Swallow(c2, c3, ActiveCampaignError)
        body == [template |-> "payments/pytools_email.txt", user |-> user,
                 url |-> build_absolute_uri(<<"/payments/pytools_thanks">>)]
        c5 == send_mail(c4, user, <<"Inscricao no curso Pytools">>, body)
    IN [c5 EXCEPT !.ret = NoUser]

promote_client_and_remove_boleto_tag(c, user, source) ==
    LET c1 == promote_client(c, user, source)
    IN Provider(c1, "remove_tags", user, CLIENT_BOLETO_TAG, 0)

\* ---------------------------------------------------------------- campaign
\* The loop leaving at the first tag call that fails.
TagPromotionUsers_break(c, promotion_users, i) ==
    IF promotion_users = <<>> THEN c
    ELSE LET c1 == Provider(c, "tag_as", promotion_users[1], "pytools-promotion", 0)
         IN Swallow(c, c1, ActiveCampaignError)

\* The loop of run_pytools_promotion_campaign over promotion_users[i..].
RECURSIVE TagPromotionUsers(_, _, _)
TagPromotionUsers(c, promotion_users, i) ==
    IF i > Len(promotion_users) THEN c
    ELSE LET c1 == Provider(c, "tag_as", promotion_users[i], "pytools-promotion", 0)
         IN TagPromotionUsers(Swallow(c, c1, ActiveCampaignError),
                              promotion_users, i + 1)

\* promotion_users is what find_leads_by_date_joined_interval returns for the
\* window computed by the payments facade.
run_pytools_promotion_campaign(c, promotion_users) ==
    LET c0 == [c EXCEPT !.leads = promotion_users]
        c1 == Core(c0, "core.find_leads_by_date_joined_interval", "", "")
        c2 == TagPromotionUsers(c1, promotion_users, 1)
    IN IF c2.exc # NoExc THEN c2
       ELSE [c2 EXCEPT !.count = Len(promotion_users)]

\* ---------------------------------------------------------------- funnel
visit_client_landing_page(c, user, source) ==
    LET c1 == Core(c, "core.visit_client_landing_page", user, source)
    IN Provider(c1, "tag_as", user, "potential-client", 0)

\* visit_member_landing_page without its try statement.
visit_member_landing_page_unguarded(c, user, source) ==
    LET c1 == Core(c, "core.visit_member_landing_page", user, source)
    IN Provider(c1, "tag_as", user, "potential-member", 0)

visit_member_landing_page(c, user, source) ==
    LET c1 == Core(c, "core.visit_member_landing_page", user, source)
        c2 == Provider(c1, "tag_as", user, "potential-member", 0)
    IN Swallow(c1, c2, ActiveCampaignError)

visit_launch_landing_page(c, user, source) ==
    Core(c, "core.visit_launch_landing_page", user, source)

subscribe_launch_landing_page(c, user, source) ==
    Core(c, "core.subscribe_to_launch", user, source)

click_member_checkout(c, user) ==
    LET c1 == Core(c, "core.member_checkout", user, "None")
    IN Provider(c1, "tag_as", user, "member-checkout", 0)

click_client_checkout(c, user) ==
    LET c1 == Core(c, "core.client_checkout", user, "None")
    IN Provider(c1, "tag_as", user, "client-checkout", 0)

client_generated_boleto(c, user) ==
    LET c1 == Provider(c, "tag_as", user, CLIENT_BOLETO_TAG, 0)
    IN Core(c1, "core.client_generated_boleto", user, "None")

member_generated_boleto(c, user) ==
    Core(c, "core.member_generated_boleto", user, "None")

subscribe_to_waiting_list(c, user, source) ==
    LET c1 == Core(c, "core.subscribe_to_waiting_list", user, source)
    IN Provider(c1, "tag_as", user, "lista-de-espera", 0)

activate_user(c, user, source) ==
    LET c1 == Core(c, "core.activate_user", user, source)
    IN Delay(c1, Task("remove_tags", user, "never-watched-video"))

visit_cpl1(c, user, source) ==
    LET c1 == Core(c, "core.visit_cpl1", user, source)
    IN Provider(c1, "tag_as", user, "cpl1", 0)

visit_cpl2(c, user, source) ==
    LET c1 == Core(c, "core.visit_cpl2", user, source)
    IN Provider(c1, "tag_as", user, "cpl2", 0)

visit_cpl3(c, user, source) ==
    LET c1 == Core(c, "core.visit_cpl3", user, source)
    IN Provider(c1, "tag_as", user, "cpl3", 0)

\* ---------------------------------------------------------------- actions
NoCall ==
    [op |-> "none", user |-> "", arg |-> "", settings |-> NoSettings,
     mode |-> "queued", exc |-> NoExc, ret |-> NoUser, count |-> 0,
     leads |-> <<>>, form |-> {}, log |-> <<>>]

\* No call is in flight.
Idle == last.op = "none"

\* The state after a handler ran to its return or to the exception it raised.
\* Nothing is rolled back: what the collaborators stored before an exception
\* stays stored.  Calls are served one at a time, and a handler that hands
\* tasks to the executor is served once the workers have drained the queue.
Done(op, user, arg, c) ==
    /\ Len(c.queue) > Len(queue) => queue = <<>>
    /\ users' = c.users
    /\ enrolled' = c.enrolled
    /\ queue' = c.queue
    /\ last' = [op |-> op, user |-> user, arg |-> arg, settings |-> c.settings,
                mode |-> c.mode, exc |-> c.exc,
                ret |-> IF c.exc = NoExc THEN c.ret ELSE NoUser,
                count |-> c.count, leads |-> c.leads, form |-> c.form,
                log |-> c.log]
    /\ UNCHANGED cohorts

\* The caller has taken the outcome of the call.
Return ==
    /\ ~Idle
    /\ last' = NoCall
    /\ UNCHANGED <<users, cohorts, enrolled, queue>>

Stored == {e \in Emails : users[e] # NoUser}

\* Orders of a set of users, as the storage may return them.
Orders(S) ==
    {q \in [1 .. Cardinality(S) -> S] : \A i, j \in DOMAIN q : i # j => q[i] # q[j]}

RegisterLead ==
    /\ Idle
    /\ \E e \in Emails, s \in Sources, m \in Modes :
           \E cfg \in (IF m = "queued" THEN {NoSettings} ELSE Settings),
              env \in Envs(IF m = "queued" THEN 0 ELSE 2, m # "queued", FALSE) :
               Done("register_lead", e, s, register_lead(Ctx0(env, cfg, m), e, s))

ForceRegisterLead ==
    /\ Idle
    /\ \E e \in Emails, m \in Modes, cfg \in Settings :
           \E env \in Envs(IF m = "queued" THEN 0 ELSE 1, TRUE, FALSE) :
               Done("force_register_lead", e, "unknown",
                    force_register_lead(Ctx0(env, cfg, m), e, "unknown"))

ForceRegisterClient ==
    /\ Idle
    /\ \E e \in Emails, cfg \in Settings, env \in Envs(1, TRUE, FALSE) :
           Done("force_register_client", e, "unknown",
                force_register_client(Ctx0(env, cfg, "queued"), e, "unknown"))

ForceRegisterMember ==
    /\ Idle
    /\ \E e \in Emails, cfg \in Settings, env \in Envs(2, TRUE, FALSE) :
           Done("force_register_member", e, "unknown",
                force_register_member(Ctx0(env, cfg, "queued"), e, "unknown"))

PromoteMember ==
    /\ Idle
    /\ \E e \in Stored, cfg \in Settings, env \in Envs(2, TRUE, TRUE) :
           Done("promote_member", e, "newsletter",
                promote_member(Ctx0(env, cfg, "queued"), e, "newsletter"))

PromoteClient ==
    /\ Idle
    /\ \E e \in Stored, cfg \in Settings, env \in Envs(1, TRUE, TRUE) :
           Done("promote_client", e, "newsletter",
                promote_client(Ctx0(env, cfg, "queued"), e, "newsletter"))

PromoteClientAndRemoveBoletoTag ==
    /\ Idle
    /\ \E e \in Stored, cfg \in Settings, env \in Envs(2, TRUE, TRUE) :
           Done("promote_client_and_remove_boleto_tag", e, "newsletter",
                promote_client_and_remove_boleto_tag(Ctx0(env, cfg, "queued"), e,
                                                     "newsletter"))

RunPytoolsPromotionCampaign ==
    /\ Idle
    /\ \E S \in SUBSET {e \in Emails : users[e] = "lead"} :
           \E promotion_users \in Orders(S), env \in Envs(Cardinality(S), FALSE, FALSE) :
               Done("run_pytools_promotion_campaign", "", "",
                    run_pytools_promotion_campaign(Ctx0(env, NoSettings, "queued"),
                                                   promotion_users))

VisitClientLandingPage ==
    /\ Idle
    /\ \E e \in Stored, env \in Envs(1, FALSE, FALSE) :
           Done("visit_client_landing_page", e, "newsletter",
                visit_client_landing_page(Ctx0(env, NoSettings, "queued"), e, "newsletter"))

VisitMemberLandingPage ==
    /\ Idle
    /\ \E e \in Stored, env \in Envs(1, FALSE, FALSE) :
           Done("visit_member_landing_page", e, "newsletter",
                visit_member_landing_page(Ctx0(env, NoSettings, "queued"), e, "newsletter"))

VisitLaunchLandingPage ==
    /\ Idle
    /\ \E e \in Stored, env \in Envs(0, FALSE, FALSE) :
           Done("visit_launch_landing_page", e, "newsletter",
                visit_launch_landing_page(Ctx0(env, NoSettings, "queued"), e, "newsletter"))

SubscribeLaunchLandingPage ==
    /\ Idle
    /\ \E e \in Stored, env \in Envs(0, FALSE, FALSE) :
           Done("subscribe_launch_landing_page", e, "newsletter",
                subscribe_launch_landing_page(Ctx0(env, NoSettings, "queued"), e,
                                              "newsletter"))

ClickMemberCheckout ==
    /\ Idle
    /\ \E e \in Stored, env \in Envs(1, FALSE, FALSE) :
           Done("click_member_checkout", e, "",
                click_member_checkout(Ctx0(env, NoSettings, "queued"), e))

ClickClientCheckout ==
    /\ Idle
    /\ \E e \in Stored, env \in Envs(1, FALSE, FALSE) :
           Done("click_client_checkout", e, "",
                click_client_checkout(Ctx0(env, NoSettings, "queued"), e))

ClientGeneratedBoleto ==
    /\ Idle
    /\ \E e \in Stored, env \in Envs(1, FALSE, FALSE) :
           Done("client_generated_boleto", e, "",
                client_generated_boleto(Ctx0(env, NoSettings, "queued"), e))

MemberGeneratedBoleto ==
    /\ Idle
    /\ \E e \in Stored, env \in Envs(0, FALSE, FALSE) :
           Done("member_generated_boleto", e, "",
                member_generated_boleto(Ctx0(env, NoSettings, "queued"), e))

SubscribeToWaitingList ==
    /\ Idle
    /\ \E e \in Stored, env \in Envs(1, FALSE, FALSE) :
           Done("subscribe_to_waiting_list", e, "newsletter",
                subscribe_to_waiting_list(Ctx0(env, NoSettings, "queued"), e, "newsletter"))

ActivateUser ==
    /\ Idle
    /\ \E e \in Stored, m \in Modes :
           \E env \in Envs(IF m = "queued" THEN 0 ELSE 1, FALSE, FALSE) :
           Done("activate_user", e, "newsletter",
                activate_user(Ctx0(env, NoSettings, m), e, "newsletter"))

VisitCpl1 ==
    /\ Idle
    /\ \E e \in Stored, env \in Envs(1, FALSE, FALSE) :
           Done("visit_cpl1", e, "newsletter",
                visit_cpl1(Ctx0(env, NoSettings, "queued"), e, "newsletter"))

VisitCpl2 ==
    /\ Idle
    /\ \E e \in Stored, env \in Envs(1, FALSE, FALSE) :
           Done("visit_cpl2", e, "newsletter",
                visit_cpl2(Ctx0(env, NoSettings, "queued"), e, "newsletter"))

VisitCpl3 ==
    /\ Idle
    /\ \E e \in Stored, env \in Envs(1, FALSE, FALSE) :
           Done("visit_cpl3", e, "newsletter",
                visit_cpl3(Ctx0(env, NoSettings, "queued"), e, "newsletter"))

\* A worker of the executor takes the oldest queued task and runs its body; the
\* task's exception stays with the worker.
Worker ==
    /\ Idle
    /\ queue # <<>>
    /\ LET t == Head(queue)
           sync == t.task = "sync_user_on_discourse"
       IN \E cfg \in (IF sync THEN Settings ELSE {NoSettings}) :
             \E env \in {x \in Envs(1, sync, FALSE) : ~x.core} :
                LET c0 == [Ctx0(env, cfg, "queued") EXCEPT !.queue = Tail(queue)]
                IN Done("worker", t.user, t.task, RunTask(c0, t))

\* The cohorts facade gains a new most recent cohort.
NewCohort ==
    /\ Idle
    /\ cohorts < MaxCohorts
    /\ cohorts' = cohorts + 1
    /\ UNCHANGED <<users, enrolled, queue, last>>

Init ==
    /\ users = [e \in Emails |-> NoUser]
    /\ cohorts = 1
    /\ enrolled = [e \in Emails |-> 0]
    /\ queue = <<>>
    /\ last = NoCall

Next ==
    \/ RegisterLead
    \/ ForceRegisterLead
    \/ ForceRegisterClient
    \/ ForceRegisterMember
    \/ PromoteMember
    \/ PromoteClient
    \/ PromoteClientAndRemoveBoletoTag
    \/ RunPytoolsPromotionCampaign
    \/ VisitClientLandingPage
    \/ VisitMemberLandingPage
    \/ VisitLaunchLandingPage
    \/ SubscribeLaunchLandingPage
    \/ ClickMemberCheckout
    \/ ClickClientCheckout
    \/ ClientGeneratedBoleto
    \/ MemberGeneratedBoleto
    \/ SubscribeToWaitingList
    \/ ActivateUser
    \/ VisitCpl1
    \/ VisitCpl2
    \/ VisitCpl3
    \/ Worker
    \/ Return
    \/ NewCohort

Spec == Init /\ [][Next]_vars

\* ================================================================ properties
Log == last.log
CallsOf(name) == {i \in DOMAIN Log : Log[i].call = name}
Delays(task) == {i \in CallsOf("delay") : Log[i].arg = task}
Posts == CallsOf("requests.post")
Mails == CallsOf("send_mail")
ProviderCalls ==
    {"create_or_update_lead", "create_or_update_client", "create_or_update_member",
     "tag_as", "remove_tags"}
ProviderEvents == {i \in DOMAIN Log : Log[i].call \in ProviderCalls}
FailedProvider == {i \in ProviderEvents : ~Log[i].ok}
CoreRoleCalls ==
    {"core.register_lead", "core.register_client", "core.register_member",
     "core.promote_to_client", "core.promote_to_member"}
\* The handler's first statement, the core call that stores the role, succeeded.
RoleStored == Len(Log) >= 1 /\ Log[1].call \in CoreRoleCalls /\ Log[1].ok
ForumErrors == {MissingDiscourseAPICredentials, RequestException}
\* The forum sync of the call failed: misconfigured, or the POST did not go through.
ForumFailed ==
    \/ Truthy(last.settings.base) /\ ~can_make_api_call(last.settings)
    \/ \E i \in Posts : ~Log[i].ok

ForceOps == {"force_register_lead", "force_register_client", "force_register_member"}
PromoteOps == {"promote_member", "promote_client", "promote_client_and_remove_boleto_tag"}
RoleOf(op) ==
    IF op = "force_register_lead" THEN "lead"
    ELSE IF op \in {"force_register_member", "promote_member"} THEN "member"
    ELSE "client"

\* C3: force_register_lead / _client / _member store the user through the core
\* before any forum or marketing call is made; a provider error never leaves the
\* operation and the stored user is still returned; a forum-sync failure always
\* reaches the caller, the user being stored already.
C3_ForceRegisterPersistsFirst ==
    last.op \in ForceOps =>
        /\ \A i \in DOMAIN Log :
              Log[i].call \in ProviderCalls \cup {"requests.post", "delay",
                                                 "core.find_user_by_id"}
                  => i > 1 /\ RoleStored
        /\ last.exc # ActiveCampaignError
        /\ RoleStored =>
              /\ users[last.user] = RoleOf(last.op)
              /\ ForumFailed <=> last.exc \in ForumErrors
              /\ ~ForumFailed => last.exc = NoExc /\ last.ret = last.user

C3_Witness ==
    /\ last.op = "force_register_member"
    /\ FailedProvider # {}
    /\ last.exc = NoExc
    /\ last.ret = last.user
    /\ users[last.user] = "member"

\* C4: a promote_member call that returns has enrolled the user in the most
\* recent cohort and sent exactly one email, whose subject names that cohort's
\* title and whose body carries that cohort's absolute detail URL; a provider
\* failure (create_or_update_member or the cohort tag) never keeps the email
\* from being sent.
C4_PromoteMemberEnrollsAndMails ==
    last.op = "promote_member" =>
        /\ last.exc = NoExc =>
              /\ enrolled[last.user] = cohorts
              /\ last.ret = last.user
              /\ Cardinality(Mails) = 1
              /\ \A i \in Mails :
                    /\ Log[i].ok
                    /\ Log[i].to = {last.user}
                    /\ Log[i].subject = <<"Inscricao na Turma", CohortTitle(cohorts)>>
                    /\ Log[i].body.url = <<"https://host", "/cohorts", cohorts>>
              /\ \A i \in CallsOf("tag_as") : Log[i].cohort = cohorts
        /\ FailedProvider # {} => Cardinality(Mails) = 1
        /\ last.exc # ActiveCampaignError

C4_Witness ==
    /\ last.op = "promote_member"
    /\ last.exc = NoExc
    /\ cohorts = MaxCohorts
    /\ FailedProvider # {}
    /\ \E i \in FailedProvider : Log[i].call = "create_or_update_member"
    /\ Cardinality(Mails) = 1

SyncRan ==
    \/ last.op = "worker" /\ last.arg = "sync_user_on_discourse"
    \/ last.op \in ForceOps \cup PromoteOps /\ RoleStored

\* C8: sync_user_on_discourse has three outcomes.  Without a base URL and
\* without credentials it returns, no HTTP call made.  With a base URL and the
\* key or the user missing it raises MissingDiscourseAPICredentials, with no
\* HTTP call and no user lookup.  With base URL, key and user set it makes
\* exactly one POST to {base}/admin/users/sync_sso, with fields sso and sig and
\* headers Api-Key and Api-Username.
C8_SyncThreeOutcomes ==
    SyncRan =>
        LET cfg == last.settings
            creds == Truthy(cfg.key) /\ Truthy(cfg.user)
        IN /\ (~Truthy(cfg.base) /\ ~creds) =>
                  /\ Posts = {}
                  /\ CallsOf("core.find_user_by_id") = {}
                  /\ last.exc \notin ForumErrors
           /\ (Truthy(cfg.base) /\ ~creds) =>
                  /\ Posts = {}
                  /\ CallsOf("core.find_user_by_id") = {}
                  /\ last.exc = MissingDiscourseAPICredentials
           /\ (Truthy(cfg.base) /\ creds) =>
                  /\ Cardinality(Posts) = 1
                  /\ last.exc # MissingDiscourseAPICredentials
                  /\ \A i \in Posts :
                        /\ Log[i].url = <<cfg.base, "/admin/users/sync_sso">>
                        /\ DOMAIN Log[i].data = {"sso", "sig"}
                        /\ Log[i].data.sso.email = last.user
                        /\ Log[i].headers.Api_Key = cfg.key
                        /\ Log[i].headers.Api_Username = cfg.user
                        /\ i > 1 => Log[i - 1].call = "core.find_user_by_id"

C8_Witness ==
    /\ last.op = "worker"
    /\ last.arg = "sync_user_on_discourse"
    /\ Truthy(last.settings.base)
    /\ can_make_api_call(last.settings)
    /\ Cardinality(Posts) = 1
    /\ last.exc = NoExc

\* C1: a register_lead call that returns gives back the user the core stored,
\* with role lead, and has handed the executor exactly one forum-sync task and
\* exactly one marketing-sync (create_or_update_lead) task.
C1_RegisterLeadSchedulesOneOfEach ==
    (last.op = "register_lead" /\ last.exc = NoExc) =>
        /\ last.ret = last.user
        /\ users[last.user] = "lead"
        /\ Cardinality(Delays("sync_user_on_discourse")) = 1
        /\ Cardinality(Delays("create_or_update_lead")) = 1

\* The provider call of register_lead's gate: create_or_update_lead(first_name,
\* email) without an id, whether the executor runs it inside .delay or a worker
\* runs it later.
GateCallFailed ==
    \E i \in FailedProvider :
        /\ Log[i].call = "create_or_update_lead"
        /\ Log[i].arg = "id=None"

\* C2: whenever the provider call register_lead makes before persistence fails
\* with the provider error, register_lead raises UserCreationException with an
\* 'email' form error, the core register_lead is not called, the user is not
\* stored and no forum-sync task is scheduled.
C2_ProviderFailureBlocksRegistration ==
    GateCallFailed =>
        /\ users[last.user] = NoUser
        /\ last.op = "register_lead" =>
              /\ last.exc = UserCreationException
              /\ last.form = {"email"}
              /\ CallsOf("core.register_lead") = {}
              /\ Delays("sync_user_on_discourse") = {}

\* The handlers that record a funnel event and apply or remove a marketing tag.
TagOps ==
    {"visit_client_landing_page", "visit_member_landing_page",
     "click_member_checkout", "click_client_checkout", "client_generated_boleto",
     "subscribe_to_waiting_list", "activate_user", "visit_cpl1", "visit_cpl2",
     "visit_cpl3"}
\* The tag call of a funnel handler: tag_as, or the dispatch of remove_tags.
TagCalls == CallsOf("tag_as") \cup Delays("remove_tags")
Recorded(i) == \E j \in 1 .. (i - 1) : Log[j].user = last.user /\ Log[j].ok
                                        /\ Log[j].call \notin ProviderCalls \cup {"delay"}

\* C9: in every funnel handler that applies a tag, the interaction is recorded
\* through the core before the tag call is made: no tag call is reached when
\* recording fails, and the interaction is recorded whenever a tag call fails.
C9_RecordBeforeTag ==
    last.op \in TagOps => \A i \in TagCalls : Recorded(i)

\* C10: over the eight combinations of base URL, key and user being set or not,
\* sync_user_on_discourse makes an HTTP POST only when the base URL is set.
C10_PostOnlyWithBaseUrl ==
    Posts # {} => Truthy(last.settings.base)

RaisingTagOps ==
    {"visit_client_landing_page", "client_generated_boleto",
     "subscribe_to_waiting_list", "click_member_checkout", "click_client_checkout",
     "visit_cpl1", "visit_cpl2", "visit_cpl3"}
\* The handler's core call, its first statement, succeeded.
CoreRecorded == Len(Log) >= 1 /\ Log[1].ok /\ Log[1].call \notin ProviderCalls

\* C6 as claimed: when the tag call fails, visit_member_landing_page returns
\* with the interaction recorded; the other tagging funnel handlers raise the
\* provider error; activate_user only dispatches the tag removal, and no tag
\* failure ever reaches its caller.
C6_TagFailurePolicy ==
    /\ last.op = "visit_member_landing_page" =>
          /\ last.exc # ActiveCampaignError
          /\ FailedProvider # {} => last.exc = NoExc /\ CoreRecorded
    /\ (last.op \in RaisingTagOps /\ FailedProvider # {}) =>
          last.exc = ActiveCampaignError
    /\ last.op = "activate_user" =>
          /\ last.exc # ActiveCampaignError
          /\ CoreRecorded => Cardinality(Delays("remove_tags")) = 1

\* C6 amended: as above, except that activate_user, which dispatches the tag
\* removal with .delay and catches nothing, shows its caller no tag failure when
\* the executor queues the task or runs it eagerly without propagating, and
\* raises the provider error when the executor runs tasks eagerly and propagates.
C6_TagFailurePolicyByExecutor ==
    /\ last.op = "visit_member_landing_page" =>
          /\ last.exc # ActiveCampaignError
          /\ FailedProvider # {} => last.exc = NoExc /\ CoreRecorded
    /\ (last.op \in RaisingTagOps /\ FailedProvider # {}) =>
          last.exc = ActiveCampaignError
    /\ last.op = "activate_user" =>
          /\ last.exc = ActiveCampaignError
                <=> (last.mode = "eager_propagates" /\ FailedProvider # {})
          /\ last.mode = "queued" => FailedProvider = {}
          /\ CoreRecorded => Cardinality(Delays("remove_tags")) = 1

C6_Witness ==
    /\ last.op = "activate_user"
    /\ last.mode = "eager"
    /\ FailedProvider # {}
    /\ last.exc = NoExc

\* C5 as claimed: in the force_register_* and promote_* handlers a failure of
\* the marketing provider or of the forum sync neither undoes the role update
\* nor is fatal: the handler does not raise and a promotion sends its email.
C5_SyncFailuresNeverFatal ==
    (last.op \in ForceOps \cup PromoteOps /\ RoleStored) =>
        /\ users[last.user] = RoleOf(last.op)
        /\ last.exc \notin {ActiveCampaignError} \cup ForumErrors
        /\ (last.op \in PromoteOps /\ last.exc # MailError) =>
              \E i \in Mails : Log[i].ok

\* C5 amended: in those handlers a failure of the marketing provider or of the
\* forum sync never undoes the role update.  A provider failure in
\* create_or_update_* or in the cohort tag is not fatal: a promotion still sends
\* its email.  A forum-sync failure is fatal: it reaches the caller before any
\* provider call or email.  In promote_client_and_remove_boleto_tag a provider
\* failure in the closing remove_tags reaches the caller, the email being sent.
C5_RoleKeptForumFatal ==
    (last.op \in ForceOps \cup PromoteOps /\ RoleStored) =>
        /\ users[last.user] = RoleOf(last.op)
        /\ ForumFailed <=> last.exc \in ForumErrors
        /\ ForumFailed => ProviderEvents = {} /\ Mails = {} /\ CallsOf("delay") = {}
        /\ (~ForumFailed /\ last.op \in PromoteOps) => Cardinality(Mails) = 1
        /\ last.exc = ActiveCampaignError =>
              /\ last.op = "promote_client_and_remove_boleto_tag"
              /\ Log[Len(Log)].call = "remove_tags"
              /\ \E i \in Mails : Log[i].ok
        /\ last.exc = NoExc =>
              \A i \in FailedProvider : Log[i].call # "remove_tags"

C5_Witness ==
    /\ last.op = "promote_member"
    /\ RoleStored
    /\ last.exc = MissingDiscourseAPICredentials
    /\ users[last.user] = "member"
    /\ Mails = {}

====
